---- MODULE Spec2Model ----
(***************************************************************************)
(* Grover-search demonstration scripts (part_3/grovers_search): the gate   *)
(* sequences the oracles and build_grover_circuit append, and their effect *)
(* on the simulator's state vector.                                        *)
(*                                                                         *)
(* A gate is a record [g, t, c]: kind g ("H","X","Z","M"), targets t (a    *)
(* sequence of qubit ids, one id for H/X/Z, the measured qubits in order   *)
(* for "M"), controls c (a set of qubit ids).  Qubit ids are the LineQubit *)
(* numbers 0..NQ-1.  Python's qubits[i] is qubits[i+1] here.               *)
(*                                                                         *)
(* Every gate in these circuits has a real matrix with entries in          *)
(* Z[1/sqrt 2], so an amplitude is kept exactly as the integer pair <<a,b>>*)
(* standing for (a + b*sqrt 2) / (sqrt 2)^h with one exponent h for the    *)
(* whole state vector.                                                     *)
(***************************************************************************)
EXTENDS Integers, Sequences, FiniteSets, TLC

VARIABLES script, mode, input, n, bpc, it, circuit, pc, psi, h, all_results,
          qubits_arg, raised, returned, logger,
          repetitions, samples, counts, total_counts, hpc,
          pil, tpc, passes, steps_arg, walked, meas, heading, frames, is_recording,
          console, exc, saved, pencolor, calls

vars == <<script, mode, input, n, bpc, it, circuit, pc, psi, h, all_results,
          qubits_arg, raised, returned, logger,
          repetitions, samples, counts, total_counts, hpc,
          pil, tpc, passes, steps_arg, walked, meas, heading, frames, is_recording,
          console, exc, saved, pencolor, calls>>

\* the qubit list handed to the oracle, and whether the call raised
ovars == <<qubits_arg, raised>>

\* what the script keeps between builds: the circuit each earlier
\* build_grover_circuit(n) call returned, by n, and the Logger that stands
\* in for sys.stdout
bvars == <<returned, logger>>

\* no Logger installed
NoLogger == [terminal |-> <<>>, shown |-> 0, log |-> <<>>, buffered |-> <<>>]

\* the circuit builder, the simulator and the oracle call
gvars == <<script, mode, input, n, bpc, it, circuit, pc, psi, h, all_results, ovars, bvars>>

\* the shots of one simulator.run, their histogram, and the printed total
hvars == <<repetitions, samples, counts, total_counts, hpc>>

\* the turtle scripts: whether PIL can be imported, the position in main,
\* the loop counter, the steps argument and the steps one quantum_walk call
\* has made, the last measurement, and per TurtleDrawer (1 = drawer or
\* drawer1, 2 = drawer2) the heading in half degrees, the number of frames
\* and is_recording; what was printed, the exception that ended the run,
\* the files written, the pen colour per TurtleDrawer, and the method calls
\* made on a drawer that is driven call by call
tvars == <<pil, tpc, passes, steps_arg, walked, meas, heading, frames, is_recording,
           console, exc, saved, pencolor, calls>>

\* no turtle script under way
TurtleIdle ==
    /\ pil = TRUE
    /\ tpc = "off"
    /\ passes = 0
    /\ steps_arg = 1
    /\ walked = 0
    /\ meas = <<>>
    /\ heading = [d \in {1, 2} |-> 0]
    /\ frames = [d \in {1, 2} |-> 0]
    /\ is_recording = [d \in {1, 2} |-> FALSE]
    /\ console = {}
    /\ exc = "none"
    /\ saved = {}
    /\ pencolor = [d \in {1, 2} |-> "cyan"]
    /\ calls = <<>>

\* most shots of one simulator.run (the scripts ask for 100 to 1000)
MaxShots == 3

\* no simulator.run with shots under way
HistIdle ==
    /\ repetitions = 0
    /\ samples = <<>>
    /\ counts = <<>>
    /\ total_counts = 0
    /\ hpc = "off"

\* largest num_iterations passed to build_grover_circuit
MaxIter == 3

----------------------------------------------------------------------------
(* Gates *)

X(q) == [g |-> "X", t |-> <<q>>, c |-> {}]
H(q) == [g |-> "H", t |-> <<q>>, c |-> {}]
Z(q) == [g |-> "Z", t |-> <<q>>, c |-> {}]
controlled_by(gate, ctrls) == [gate EXCEPT !.c = gate.c \cup ctrls]
CNOT(a, b) == controlled_by(X(b), {a})
TOFFOLI(a, b, tgt) == controlled_by(X(tgt), {a, b})
CZ(a, b) == controlled_by(Z(b), {a})
\* a measurement that lists the qubits last to first
measure_reversed(qs) ==
    [g |-> "M", t |-> [j \in 1..Len(qs) |-> qs[Len(qs) + 1 - j]], c |-> {}]

measure(qs) == [g |-> "M", t |-> qs, c |-> {}]
H_on_each(qs) == [i \in 1..Len(qs) |-> H(qs[i])]
X_on_each(qs) == [i \in 1..Len(qs) |-> X(qs[i])]

RECURSIVE Flatten(_)
Flatten(ss) == IF ss = <<>> THEN <<>> ELSE Head(ss) \o Flatten(Tail(ss))

\* a reversal that leaves the order as it is
Reverse_identity(s) == s

Reverse(s) == [i \in 1..Len(s) |-> s[Len(s) + 1 - i]]

\* a reset that keeps the gates of the earlier steps
FreshCircuit_keeps(old) == old

\* "circuit = cirq.Circuit()": the old circuit is dropped
FreshCircuit(old) == <<>>

LineQubitRange(k) == [i \in 1..k |-> i - 1]

\* "for i, bit_val in enumerate(pattern): if bit_val == 0: append X(qubits[i])"
XOnZeros(pattern, qubits) ==
    LET idx == SelectSeq([i \in 1..Len(pattern) |-> i], LAMBDA i : pattern[i] = 0)
    IN  [j \in 1..Len(idx) |-> X(qubits[idx[j]])]

----------------------------------------------------------------------------
(* grover.py *)

\* the pattern list with a mistyped fifth entry
two_public_patterns_typo ==
    << <<1,1,0,0>>, <<1,0,1,0>>, <<1,0,0,1>>,
       <<0,1,1,0>>, <<0,1,1,1>>, <<0,0,1,1>> >>

two_public_patterns ==
    << <<1,1,0,0>>, <<1,0,1,0>>, <<1,0,0,1>>,
       <<0,1,1,0>>, <<0,1,0,1>>, <<0,0,1,1>> >>

\* the oracle whose pattern blocks leave out the second run of X gates
oracle_two_public_rooms_no_restore(qubits) ==
    LET q0 == qubits[1]
        q1 == qubits[2]
        q2 == qubits[3]
        q3 == qubits[4]
        val == qubits[5]
        flip_val_if_pattern(pattern) ==
            XOnZeros(pattern, qubits)
            \o <<controlled_by(X(val), {q0, q1, q2, q3})>>
    IN  Flatten([k \in 1..Len(two_public_patterns) |->
                    flip_val_if_pattern(two_public_patterns[k])])

oracle_two_public_rooms(qubits) ==
    LET q0 == qubits[1]
        q1 == qubits[2]
        q2 == qubits[3]
        q3 == qubits[4]
        val == qubits[5]
        flip_val_if_pattern(pattern) ==
            XOnZeros(pattern, qubits)
            \o <<controlled_by(X(val), {q0, q1, q2, q3})>>
            \o XOnZeros(pattern, qubits)
    IN  Flatten([k \in 1..Len(two_public_patterns) |->
                    flip_val_if_pattern(two_public_patterns[k])])

----------------------------------------------------------------------------
(* quantum_architect_v2.py *)

\* the pattern list with its last entry forgotten
two_of_four_patterns_missing ==
    << <<1,1,0,0>>, <<1,0,1,0>>, <<1,0,0,1>>,
       <<0,1,1,0>>, <<0,1,0,1>> >>

two_of_four_patterns ==
    << <<1,1,0,0>>, <<1,0,1,0>>, <<1,0,0,1>>,
       <<0,1,1,0>>, <<0,1,0,1>>, <<0,0,1,1>> >>

\* the oracle with STEP 6 (the uncomputation of the ancillas) left out
oracle_count_nonoverlapping_adjacency_no_step6(qubits) ==
    LET q0 == qubits[1]
        q1 == qubits[2]
        q2 == qubits[3]
        q3 == qubits[4]
        val == qubits[5]
        a_count == qubits[6]
        a_adj0 == qubits[7]
        a_adj1 == qubits[8]
        a_xor == qubits[9]
        block(pattern) ==
            XOnZeros(pattern, qubits)
            \o <<controlled_by(X(a_count), {q0, q1, q2, q3})>>
            \o XOnZeros(pattern, qubits)
    IN  Flatten([k \in 1..Len(two_of_four_patterns) |-> block(two_of_four_patterns[k])])
        \o <<controlled_by(X(a_adj0), {q0, q1})>>
        \o <<controlled_by(X(a_adj1), {q2, q3})>>
        \o <<CNOT(a_adj0, a_xor), CNOT(a_adj1, a_xor)>>
        \o <<controlled_by(X(val), {a_count, a_xor})>>

oracle_count_nonoverlapping_adjacency(qubits) ==
    LET q0 == qubits[1]
        q1 == qubits[2]
        q2 == qubits[3]
        q3 == qubits[4]
        val == qubits[5]
        a_count == qubits[6]
        a_adj0 == qubits[7]
        a_adj1 == qubits[8]
        a_xor == qubits[9]
        block(pattern) ==
            XOnZeros(pattern, qubits)
            \o <<controlled_by(X(a_count), {q0, q1, q2, q3})>>
            \o XOnZeros(pattern, qubits)
        rev == Reverse(two_of_four_patterns)
    IN  Flatten([k \in 1..Len(two_of_four_patterns) |-> block(two_of_four_patterns[k])])
        \o <<controlled_by(X(a_adj0), {q0, q1})>>
        \o <<controlled_by(X(a_adj1), {q2, q3})>>
        \o <<CNOT(a_adj0, a_xor), CNOT(a_adj1, a_xor)>>
        \o <<controlled_by(X(val), {a_count, a_xor})>>
        \o <<CNOT(a_adj1, a_xor), CNOT(a_adj0, a_xor)>>
        \o <<controlled_by(X(a_adj1), {q2, q3})>>
        \o <<controlled_by(X(a_adj0), {q0, q1})>>
        \o Flatten([k \in 1..Len(rev) |-> block(rev[k])])

----------------------------------------------------------------------------
(* quantum_architect/quantum_architect_muli_rule.py *)

two_of_four_patterns_multi_rule ==
    << <<1,1,0,0>>, <<1,0,1,0>>, <<1,0,0,1>>,
       <<0,1,1,0>>, <<0,1,0,1>>, <<0,0,1,1>> >>

oracle_count_nonoverlapping_adjacency_multi_rule(qubits) ==
    LET q0 == qubits[1]
        q1 == qubits[2]
        q2 == qubits[3]
        q3 == qubits[4]
        val == qubits[5]
        a_count == qubits[6]
        a_adj0 == qubits[7]
        a_adj1 == qubits[8]
        a_xor == qubits[9]
        pats == two_of_four_patterns_multi_rule
        block(pattern) ==
            XOnZeros(pattern, qubits)
            \o <<controlled_by(X(a_count), {q0, q1, q2, q3})>>
            \o XOnZeros(pattern, qubits)
        rev == Reverse(pats)
    IN  Flatten([k \in 1..Len(pats) |-> block(pats[k])])
        \o <<controlled_by(X(a_adj0), {q0, q1})>>
        \o <<controlled_by(X(a_adj1), {q2, q3})>>
        \o <<CNOT(a_adj0, a_xor), CNOT(a_adj1, a_xor)>>
        \o <<controlled_by(X(val), {a_count, a_xor})>>
        \o <<CNOT(a_adj1, a_xor), CNOT(a_adj0, a_xor)>>
        \o <<controlled_by(X(a_adj1), {q2, q3})>>
        \o <<controlled_by(X(a_adj0), {q0, q1})>>
        \o Flatten([k \in 1..Len(rev) |-> block(rev[k])])

----------------------------------------------------------------------------
(* quantum_architect/quantum_architect.py *)

\* the oracle with the uncomputation of a_adj0 left out
oracle_nonoverlapping_adjacency_no_uncompute(qubits) ==
    LET q0 == qubits[1]
        q1 == qubits[2]
        q2 == qubits[3]
        q3 == qubits[4]
        val == qubits[5]
        a_adj0 == qubits[6]
        a_adj1 == qubits[7]
        a_xor == qubits[8]
    IN  <<controlled_by(X(a_adj0), {q0, q1}),
          controlled_by(X(a_adj1), {q2, q3}),
          CNOT(a_adj0, a_xor),
          CNOT(a_adj1, a_xor),
          controlled_by(X(val), {a_xor}),
          CNOT(a_adj1, a_xor),
          CNOT(a_adj0, a_xor),
          controlled_by(X(a_adj1), {q2, q3})>>

oracle_nonoverlapping_adjacency(qubits) ==
    LET q0 == qubits[1]
        q1 == qubits[2]
        q2 == qubits[3]
        q3 == qubits[4]
        val == qubits[5]
        a_adj0 == qubits[6]
        a_adj1 == qubits[7]
        a_xor == qubits[8]
    IN  <<controlled_by(X(a_adj0), {q0, q1}),
          controlled_by(X(a_adj1), {q2, q3}),
          CNOT(a_adj0, a_xor),
          CNOT(a_adj1, a_xor),
          controlled_by(X(val), {a_xor}),
          CNOT(a_adj1, a_xor),
          CNOT(a_adj0, a_xor),
          controlled_by(X(a_adj1), {q2, q3}),
          controlled_by(X(a_adj0), {q0, q1})>>

----------------------------------------------------------------------------
(* quantum_architect.py (3 rooms) *)

oracle_for_2_adj_public(qubits) ==
    LET q0 == qubits[1]
        q1 == qubits[2]
        q2 == qubits[3]
        val == qubits[4]
    IN  <<X(q2), TOFFOLI(q0, q1, val), X(q2),
          X(q0), TOFFOLI(q1, q2, val), X(q0),
          CZ(val, q0),
          X(q0), TOFFOLI(q1, q2, val), X(q0),
          X(q2), TOFFOLI(q0, q1, val), X(q2)>>

----------------------------------------------------------------------------
(* grover_simple.py *)

\* [num_nodes, total_length, max_stress]; truss_designs[i+1] is design index i
truss_designs ==
    << <<4, 120, 250>>, <<5, 150, 200>>, <<6, 180, 180>>, <<4, 130, 220>>,
       <<5, 160, 190>>, <<6, 200, 150>>, <<4, 140, 210>>, <<5, 170, 170>> >>

num_qubits == 3
target_stress == 200

Abs(x) == IF x < 0 THEN -x ELSE x

\* the fitness in hundredths: 100 * (stress_diff + total_length/100 + num_nodes*10)
calculate_fitness(design) ==
    LET num_nodes == design[1]
        total_length == design[2]
        max_stress == design[3]
        stress_diff == Abs(max_stress - target_stress)
    IN  100 * stress_diff + total_length + 100 * (num_nodes * 10)

\* the binary digits least significant first
FormatBin_little_endian(i, w) == [j \in 1..w |-> (i \div (2 ^ (j - 1))) % 2]

\* format(i, '0{w}b'): the w binary digits of i, most significant first
FormatBin(i, w) == [j \in 1..w |-> (i \div (2 ^ (w - j))) % 2]

SeqMin(s) == CHOOSE m \in {s[i] : i \in 1..Len(s)} : \A i \in 1..Len(s) : m <= s[i]

oracle_for_best_design(qubits) ==
    LET fitness_values == [i \in 1..Len(truss_designs) |-> calculate_fitness(truss_designs[i])]
        min_fitness == SeqMin(fitness_values)
        rest == {qubits[j] : j \in 2..Len(qubits)}
        mark(i) ==
            LET binary == FormatBin(i, num_qubits)
            IN  XOnZeros(binary, qubits)
                \o <<controlled_by(Z(qubits[1]), rest)>>
                \o XOnZeros(binary, qubits)
    IN  Flatten([k \in 1..Len(fitness_values) |->
                    \* abs(fitness - min_fitness) < 1e-6, fitness in hundredths
                    IF Abs(fitness_values[k] - min_fitness) * 10000 < 1
                    THEN mark(k - 1) ELSE <<>>])

----------------------------------------------------------------------------
(* The simulator: cirq.Simulator applied to a gate sequence.               *)
(* A basis state is the integer whose bit q (weight 2^q) is qubit q.       *)
(* psi maps the basis states of nonzero amplitude to <<a, b>>.             *)

Bit(s, q) == (s \div (2 ^ q)) % 2
Flip(s, q) == IF Bit(s, q) = 1 THEN s - 2 ^ q ELSE s + 2 ^ q

\* the basis state in which qubit qs[i] has value bits[i] and all others are 0
RECURSIVE BasisOf(_, _)
BasisOf(bits, qs) ==
    IF bits = <<>> THEN 0
    ELSE Head(bits) * (2 ^ Head(qs)) + BasisOf(Tail(bits), Tail(qs))

\* values of the qubits qs in basis state s, in the order of qs
BitsOf(s, qs) == [i \in 1..Len(qs) |-> Bit(s, qs[i])]

\* the integer cirq reports for measured bits: first measured qubit is the
\* most significant digit (big-endian)
RECURSIVE BigEndian(_)
BigEndian(bits) ==
    IF bits = <<>> THEN 0
    ELSE Head(bits) * (2 ^ (Len(bits) - 1)) + BigEndian(Tail(bits))

Ctrl(gate, s) == \A q \in gate.c : Bit(s, q) = 1

Amp(f, s) == IF s \in DOMAIN f THEN f[s] ELSE <<0, 0>>
Neg(p) == <<-p[1], -p[2]>>
Plus(p, q) == <<p[1] + q[1], p[2] + q[2]>>
TimesSqrt2(p) == <<2 * p[2], p[1]>>

DropZeros(f) == [s \in {u \in DOMAIN f : f[u] # <<0, 0>>} |-> f[s]]

\* cancel common factors sqrt 2 between the numerators and (sqrt 2)^e
RECURSIVE Normalise(_, _)
Normalise(f, e) ==
    IF e > 0 /\ \A s \in DOMAIN f : f[s][1] % 2 = 0
    THEN Normalise([s \in DOMAIN f |-> <<f[s][2], f[s][1] \div 2>>], e - 1)
    ELSE [psi |-> f, h |-> e]

ApplyX(gate, f, e) ==
    LET tq == gate.t[1]
        perm(s) == IF Ctrl(gate, s) THEN Flip(s, tq) ELSE s
    IN  [psi |-> [s \in {perm(u) : u \in DOMAIN f} |-> f[perm(s)]], h |-> e]

ApplyZ(gate, f, e) ==
    LET tq == gate.t[1]
    IN  [psi |-> [s \in DOMAIN f |->
                    IF Ctrl(gate, s) /\ Bit(s, tq) = 1 THEN Neg(f[s]) ELSE f[s]],
         h |-> e]

ApplyH(gate, f, e) ==
    LET tq == gate.t[1]
        dom == DOMAIN f \cup {Flip(u, tq) : u \in {v \in DOMAIN f : Ctrl(gate, v)}}
        s0(s) == IF Bit(s, tq) = 1 THEN Flip(s, tq) ELSE s
        s1(s) == IF Bit(s, tq) = 0 THEN Flip(s, tq) ELSE s
        new(s) == IF Ctrl(gate, s)
                  THEN IF Bit(s, tq) = 0
                       THEN Plus(Amp(f, s0(s)), Amp(f, s1(s)))
                       ELSE Plus(Amp(f, s0(s)), Neg(Amp(f, s1(s))))
                  ELSE TimesSqrt2(Amp(f, s))
    IN  Normalise(DropZeros([s \in dom |-> new(s)]), e + 1)

ApplyGate(gate, f, e) ==
    CASE gate.g = "X" -> ApplyX(gate, f, e)
      [] gate.g = "Z" -> ApplyZ(gate, f, e)
      [] gate.g = "H" -> ApplyH(gate, f, e)
      [] OTHER -> [psi |-> f, h |-> e]

----------------------------------------------------------------------------
(* The scripts *)

Scripts == {"grover", "architect_v2", "architect_multi_rule",
            "architect_adjacency", "architect_3room", "grover_simple"}

\* number of qubits the script allocates (LineQubit.range)
NumQubits(sc) ==
    CASE sc = "grover" -> 6
      [] sc = "architect_v2" -> 9
      [] sc = "architect_multi_rule" -> 9
      [] sc = "architect_adjacency" -> 9
      [] sc = "architect_3room" -> 4
      [] sc = "grover_simple" -> num_qubits

\* the data (room / design-index) qubits, in the order they are measured
DataQubits(sc) ==
    CASE sc \in {"architect_3room", "grover_simple"} -> <<0, 1, 2>>
      [] OTHER -> <<0, 1, 2, 3>>

\* the script's oracle called with the qubit list qs
OracleOn(sc, qs) ==
    CASE sc = "grover" -> oracle_two_public_rooms(qs)
      [] sc = "architect_v2" -> oracle_count_nonoverlapping_adjacency(qs)
      [] sc = "architect_multi_rule" -> oracle_count_nonoverlapping_adjacency_multi_rule(qs)
      [] sc = "architect_adjacency" -> oracle_nonoverlapping_adjacency(qs)
      [] sc = "architect_3room" -> oracle_for_2_adj_public(qs)
      [] sc = "grover_simple" -> oracle_for_best_design(qs)

\* the oracle as build_grover_circuit calls it, on the script's own register
Oracle(sc) == OracleOn(sc, LineQubitRange(NumQubits(sc)))

\* Python's s[a:b] for 0 <= a <= b: the items at indices a..b-1 that exist
Slice(s, a, b) == SubSeq(s, a + 1, IF b < Len(s) THEN b ELSE Len(s))

\* the tuple unpacking at the head of the oracle succeeds (otherwise Python
\* raises ValueError before any circuit.append):
\*   q0, q1, q2, q3, val, _unused_count = qubits
\*   q0, q1, q2, q3, val = qubits[:5]; a_count, a_adj0, a_adj1, a_xor = qubits[5:9]
\*   q0, q1, q2, q3, val = qubits[:5]; a_adj0, a_adj1, a_xor = qubits[5:8]
\*   q0, q1, q2, val = qubits
Unpacks(sc, qs) ==
    CASE sc = "grover" -> Len(qs) = 6
      [] sc \in {"architect_v2", "architect_multi_rule"} ->
            Len(Slice(qs, 0, 5)) = 5 /\ Len(Slice(qs, 5, 9)) = 4
      [] sc = "architect_adjacency" ->
            Len(Slice(qs, 0, 5)) = 5 /\ Len(Slice(qs, 5, 8)) = 3
      [] sc = "architect_3room" -> Len(qs) = 4
      [] OTHER -> TRUE

\* longest qubit list handed to an oracle
MaxQubits == 10

\* the qubit lists an oracle is called with: cirq.LineQubit.range(k); the
\* oracle of grover_simple.py reads the script's own global register
QubitLists(sc) ==
    IF sc = "grover_simple" THEN {LineQubitRange(num_qubits)}
    ELSE {LineQubitRange(k) : k \in 0..MaxQubits}

\* all assignments of k bits, as sequences
BitSeqs(k) == [1..k -> {0, 1}]

----------------------------------------------------------------------------
(* Oracle alone on a basis input: data qubits = input, every other qubit 0 *)

InitOracle ==
    /\ script \in Scripts
    /\ mode = "oracle"
    /\ input \in BitSeqs(Len(DataQubits(script)))
    /\ n = 0
    /\ bpc = "built"
    /\ it = 0
    /\ circuit = <<>>
    /\ pc = 0
    /\ psi = [s \in {BasisOf(input, DataQubits(script))} |-> <<1, 0>>]
    /\ h = 0
    /\ all_results = <<>>
    /\ qubits_arg \in QubitLists(script)
    /\ raised = FALSE
    /\ returned = <<>>
    /\ logger = NoLogger
    /\ HistIdle
    /\ TurtleIdle

\* oracle(circuit, qubits): the unpacking succeeds and the gates are appended
OracleCall ==
    /\ mode = "oracle"
    /\ pc = 0
    /\ ~raised
    /\ Unpacks(script, qubits_arg)
    /\ circuit' = OracleOn(script, qubits_arg)
    /\ pc' = 1
    /\ UNCHANGED <<script, mode, input, n, bpc, it, psi, h, all_results, ovars, bvars, hvars, tvars>>

\* oracle(circuit, qubits): the unpacking raises ValueError
OracleRaise ==
    /\ mode = "oracle"
    /\ pc = 0
    /\ ~raised
    /\ ~Unpacks(script, qubits_arg)
    /\ raised' = TRUE
    /\ UNCHANGED <<script, mode, input, n, bpc, it, circuit, pc, psi, h, all_results, qubits_arg, bvars, hvars, tvars>>

OracleStep ==
    /\ mode = "oracle"
    /\ pc \in 1..Len(circuit)
    /\ LET r == ApplyGate(circuit[pc], psi, h)
       IN  /\ psi' = r.psi
           /\ h' = r.h
    /\ pc' = pc + 1
    /\ UNCHANGED <<script, mode, input, n, bpc, it, circuit, all_results, ovars, bvars, hvars, tvars>>

NextOracle == OracleCall \/ OracleRaise \/ OracleStep

SpecOracle == InitOracle /\ [][NextOracle]_vars

\* after the oracle: the one basis state left and its sign
OracleDone == mode = "oracle" /\ pc > Len(circuit)
OutState == CHOOSE s \in DOMAIN psi : TRUE
OutSign == psi[OutState][1]
OutBit(q) == Bit(OutState, q)

----------------------------------------------------------------------------
(* build_grover_circuit and the run loop *)

\* the num_iterations build_grover_circuit can be called with: any count
\* for the scripts that take the argument, the built-in count for the others
IterationCounts(sc) ==
    CASE sc = "architect_3room" -> {2}
      [] sc = "grover_simple" -> {1}
      [] OTHER -> 0..MaxIter

\* the diffusion step with the control of the middle gate left out
diffusion_uncontrolled(data) ==
    LET last == data[Len(data)]
    IN  H_on_each(data) \o X_on_each(data)
        \o <<H(last)>>
        \o X_on_each(data) \o H_on_each(data)

\* the diffusion step of build_grover_circuit
diffusion(data) ==
    LET last == data[Len(data)]
        others == {data[i] : i \in 1..(Len(data) - 1)}
    IN  H_on_each(data) \o X_on_each(data)
        \o <<controlled_by(H(last), others)>>
        \o X_on_each(data) \o H_on_each(data)

\* "for _ in range(num_iterations)" with one pass too many
RangeExhausted_off_by_one(i, m) == i > m

\* "for _ in range(num_iterations)": the loop ends after m passes
RangeExhausted(i, m) == i >= m

RECURSIVE SumPairs(_, _)
SumPairs(S, f) ==
    IF S = {} THEN <<0, 0>>
    ELSE LET s == CHOOSE u \in S : TRUE
         IN  Plus(<<f[s][1] * f[s][1] + 2 * f[s][2] * f[s][2], 2 * f[s][1] * f[s][2]>>,
                  SumPairs(S \ {s}, f))

\* the distribution of the measured value: outcome o has probability
\* (dist[o][1] + dist[o][2] * sqrt 2) / 2^e
Distribution(f, e, qs) ==
    [dist |-> [o \in 0..(2 ^ Len(qs) - 1) |->
                 SumPairs({s \in DOMAIN f : BigEndian(BitsOf(s, qs)) = o}, f)],
     e |-> e]

Init ==
    /\ script \in Scripts
    /\ mode = "grover"
    /\ input = <<>>
    /\ n = 0
    /\ bpc = "idle"
    /\ it = 0
    /\ circuit = <<>>
    /\ pc = 0
    /\ psi = <<>>
    /\ h = 0
    /\ all_results = <<>>
    /\ qubits_arg = LineQubitRange(NumQubits(script))
    /\ raised = FALSE
    /\ returned = <<>>
    /\ logger = NoLogger
    /\ HistIdle
    /\ TurtleIdle

\* circuit = build_grover_circuit(iters): entry, circuit = cirq.Circuit()
Call(m) ==
    /\ mode = "grover"
    /\ bpc = "idle"
    /\ m \in IterationCounts(script)
    /\ n' = m
    /\ it' = 0
    /\ circuit' = FreshCircuit(circuit)
    /\ bpc' = "A"
    /\ UNCHANGED <<script, mode, input, pc, psi, h, all_results, ovars, bvars, hvars, tvars>>

\* Step A: Hadamard on every data qubit
BuildInit ==
    /\ bpc = "A"
    /\ circuit' = circuit \o H_on_each(DataQubits(script))
    /\ bpc' = "B"
    /\ UNCHANGED <<script, mode, input, n, it, pc, psi, h, all_results, ovars, bvars, hvars, tvars>>

\* Step B, first half of a pass: the oracle
BuildOracle ==
    /\ bpc = "B"
    /\ ~RangeExhausted(it, n)
    /\ circuit' = circuit \o Oracle(script)
    /\ bpc' = "diffusion"
    /\ UNCHANGED <<script, mode, input, n, it, pc, psi, h, all_results, ovars, bvars, hvars, tvars>>

\* Step B, second half of a pass: the diffusion
BuildDiffusion ==
    /\ bpc = "diffusion"
    /\ circuit' = circuit \o diffusion(DataQubits(script))
    /\ it' = it + 1
    /\ bpc' = "B"
    /\ UNCHANGED <<script, mode, input, n, pc, psi, h, all_results, ovars, bvars, hvars, tvars>>

\* Step C: measure the data qubits, return circuit
BuildMeasure ==
    /\ bpc = "B"
    /\ RangeExhausted(it, n)
    /\ circuit' = circuit \o <<measure(DataQubits(script))>>
    /\ bpc' = "built"
    /\ returned' = IF n \in DOMAIN returned THEN returned
                   ELSE (n :> circuit \o <<measure(DataQubits(script))>>) @@ returned
    /\ UNCHANGED <<script, mode, input, n, it, pc, psi, h, all_results, ovars, logger, hvars, tvars>>

\* simulator.run(circuit, ...): every qubit starts in |0>
RunStart ==
    /\ mode = "grover"
    /\ bpc = "built"
    /\ pc = 0
    /\ psi' = [s \in {0} |-> <<1, 0>>]
    /\ h' = 0
    /\ pc' = 1
    /\ UNCHANGED <<script, mode, input, n, bpc, it, circuit, all_results, ovars, bvars, hvars, tvars>>

RunGate ==
    /\ mode = "grover"
    /\ pc \in 1..Len(circuit)
    /\ circuit[pc].g # "M"
    /\ LET r == ApplyGate(circuit[pc], psi, h)
       IN  /\ psi' = r.psi
           /\ h' = r.h
    /\ pc' = pc + 1
    /\ UNCHANGED <<script, mode, input, n, bpc, it, circuit, all_results, ovars, bvars, hvars, tvars>>

\* the measurement; all_results[iters] = result.histogram(key='result');
\* the state vector is dropped, the script's name "circuit" still holds the
\* circuit until the next build
RunMeasure ==
    /\ mode = "grover"
    /\ pc \in 1..Len(circuit)
    /\ circuit[pc].g = "M"
    /\ all_results' = (n :> Distribution(psi, h, circuit[pc].t)) @@ all_results
    /\ psi' = <<>>
    /\ h' = 0
    /\ pc' = 0
    /\ bpc' = "idle"
    /\ UNCHANGED <<script, mode, input, n, it, circuit, ovars, bvars, hvars, tvars>>

Next ==
    \/ \E m \in 0..MaxIter : Call(m)
    \/ BuildInit
    \/ BuildOracle
    \/ BuildDiffusion
    \/ BuildMeasure
    \/ RunStart
    \/ RunGate
    \/ RunMeasure

Spec == Init /\ [][Next]_vars

\* the helper qubits of each oracle (ancillas; for the 3-room oracle, val)
Helpers(sc) ==
    CASE sc = "architect_v2" -> {5, 6, 7, 8}
      [] sc = "architect_multi_rule" -> {5, 6, 7, 8}
      [] sc = "architect_adjacency" -> {5, 6, 7}
      [] sc = "architect_3room" -> {3}
      [] OTHER -> {}

CountOnes(bits) == Cardinality({i \in 1..Len(bits) : bits[i] = 1})

----------------------------------------------------------------------------
(* Claims about the oracles alone (SpecOracle) *)

\* C1: oracle_count_nonoverlapping_adjacency (quantum_architect_v2.py and
\* quantum_architect_muli_rule.py), run alone on a basis assignment of
\* q0..q3 with val = 0 and the ancillas 0, ends with val = 1 exactly when
\* the assignment is 1100 or 0011.
C1_CountAdjacencyMarks ==
    (OracleDone /\ script \in {"architect_v2", "architect_multi_rule"})
        => (OutBit(4) = 1 <=> input \in {<<1,1,0,0>>, <<0,0,1,1>>})

C1_Witness ==
    /\ OracleDone
    /\ script = "architect_v2"
    /\ input = <<0,0,1,1>>
    /\ OutBit(4) = 1

\* C2: every oracle that uses helper qubits returns them to 0: after the
\* complete gate sequence, for every basis assignment of the data qubits,
\* every helper qubit (a_count, a_adj0, a_adj1, a_xor; a_adj0, a_adj1,
\* a_xor; val of the 3-room oracle) is 0 again.
C2_HelpersReturnToZero ==
    OracleDone => \A q \in Helpers(script) : OutBit(q) = 0

C2_Witness ==
    /\ OracleDone
    /\ script = "architect_adjacency"
    /\ input = <<1,1,0,1>>
    /\ OutBit(4) = 1
    /\ \A q \in Helpers(script) : OutBit(q) = 0

\* C3: oracle_two_public_rooms flips val if and only if exactly two of the
\* four room qubits are 1.
C3_TwoPublicRooms ==
    (OracleDone /\ script = "grover")
        => (OutBit(4) = 1 <=> CountOnes(input) = 2)

C3_Witness ==
    /\ OracleDone
    /\ script = "grover"
    /\ input = <<0,1,0,1>>
    /\ OutBit(4) = 1

\* C4 (as claimed): the net effect of oracle_for_2_adj_public is a phase
\* flip on 110 and on 011 and no phase change on the other six assignments.
C4_PhaseFlipOnBothAdjacent ==
    (OracleDone /\ script = "architect_3room")
        => (OutSign = -1 <=> input \in {<<1,1,0>>, <<0,1,1>>})

\* C5 (as claimed): oracle_nonoverlapping_adjacency flips val exactly on
\* 1100 and 0011.
C5_AdjacencyChecksBothConditions ==
    (OracleDone /\ script = "architect_adjacency")
        => (OutBit(4) = 1 <=> input \in {<<1,1,0,0>>, <<0,0,1,1>>})

\* C6: oracle_for_best_design gives the basis state that is reported as
\* state index i (the big-endian value of the measured qubits, used as
\* truss_designs[state]) the phase flip if and only if
\* calculate_fitness(truss_designs[i]) is the minimum over the designs.
C6_BestDesignMarked ==
    (OracleDone /\ script = "grover_simple")
        => LET state == BigEndian(BitsOf(OutState, DataQubits(script)))
               fit(i) == calculate_fitness(truss_designs[i + 1])
           IN  OutSign = -1 <=> \A i \in 0..(Len(truss_designs) - 1) : fit(state) <= fit(i)

C6_Witness ==
    /\ OracleDone
    /\ script = "grover_simple"
    /\ input = <<1,1,0>>
    /\ OutSign = -1

----------------------------------------------------------------------------
(* Exact comparison of probabilities p + q * sqrt 2 *)

\* p + q * sqrt 2 > 0
Positive(p, q) ==
    IF p >= 0 /\ q >= 0 THEN p + q > 0
    ELSE IF p <= 0 /\ q <= 0 THEN FALSE
    ELSE IF p > 0 THEN p * p > 2 * q * q
    ELSE 2 * q * q > p * p

\* the probability of the set V of outcomes under distribution d, as the
\* pair <<A, B>> standing for (A + B * sqrt 2) / 2^e
RECURSIVE ProbOf(_, _)
ProbOf(d, V) ==
    IF V = {} THEN <<0, 0>>
    ELSE LET o == CHOOSE u \in V : TRUE
         IN  Plus(d[o], ProbOf(d, V \ {o}))

\* r1 gives V strictly more probability than r2 does
MoreLikely(r1, r2, V) ==
    LET e == IF r1.e >= r2.e THEN r1.e ELSE r2.e
        p1 == ProbOf(r1.dist, V)
        p2 == ProbOf(r2.dist, V)
        k1 == 2 ^ (e - r1.e)
        k2 == 2 ^ (e - r2.e)
    IN  Positive(k1 * p1[1] - k2 * p2[1], k1 * p1[2] - k2 * p2[2])

Outcomes(patterns) == {BigEndian(b) : b \in patterns}

----------------------------------------------------------------------------
(* Claims about build_grover_circuit and the runs (Spec) *)

\* the diffusion block as the claim describes it: H on every data qubit, X
\* on every data qubit, Z on the last data qubit controlled by all the
\* others, X on every data qubit, H on every data qubit
ClaimedDiffusion(data) ==
    LET last == data[Len(data)]
        others == {data[i] : i \in 1..(Len(data) - 1)}
    IN  H_on_each(data) \o X_on_each(data)
        \o <<controlled_by(Z(last), others)>>
        \o X_on_each(data) \o H_on_each(data)

\* C7 (as claimed): the diffusion block emitted in every Grover iteration
\* is the five-step sequence H, X, multi-controlled Z on the last data
\* qubit, X, H.
C7_DiffusionIsControlledZ ==
    (mode = "grover" /\ bpc = "B" /\ it > 0)
        => LET d == ClaimedDiffusion(DataQubits(script))
           IN  SubSeq(circuit, Len(circuit) - Len(d) + 1, Len(circuit)) = d

\* C8: the circuit returned by build_grover_circuit(n) is the Hadamards on
\* the data qubits, then exactly n blocks each made of the complete oracle
\* immediately followed by the complete diffusion, then exactly one
\* measurement, which is the last operation.
C8_InitIterateMeasure ==
    (mode = "grover" /\ bpc = "built")
        => LET data == DataQubits(script)
               nd == Len(data)
               O == Oracle(script)
               D == diffusion(data)
               blk == Len(O) + Len(D)
           IN  /\ Len(circuit) = nd + n * blk + 1
               /\ SubSeq(circuit, 1, nd) = H_on_each(data)
               /\ \A k \in 0..(n - 1) :
                     /\ SubSeq(circuit, nd + k * blk + 1, nd + k * blk + Len(O)) = O
                     /\ SubSeq(circuit, nd + k * blk + Len(O) + 1, nd + (k + 1) * blk) = D
               /\ circuit[Len(circuit)] = measure(data)
               /\ Cardinality({i \in 1..Len(circuit) : circuit[i].g = "M"}) = 1

C8_Witness ==
    /\ mode = "grover"
    /\ bpc = "built"
    /\ script = "architect_v2"
    /\ n = 3
    /\ it = 3

\* C9: the circuit built by grover.py build_grover_circuit(1) gives the six
\* assignments with exactly two ones a combined measurement probability
\* strictly greater than 6/16.
C9_OneIterationBeatsUniform ==
    (script = "grover" /\ 1 \in DOMAIN all_results)
        => LET r == all_results[1]
               pv == ProbOf(r.dist, Outcomes({b \in BitSeqs(4) : CountOnes(b) = 2}))
           IN  Positive(16 * pv[1] - 6 * (2 ^ r.e), 16 * pv[2])

C9_Witness ==
    /\ script = "grover"
    /\ 1 \in DOMAIN all_results
    /\ bpc = "idle"

\* C10: for the predicate with valid set {1100, 0011}, the probability of
\* the valid set after 2 Grover iterations is greater than after 1
\* iteration and greater than after 3 iterations.
C10_RiseThenFall ==
    (script \in {"architect_v2", "architect_multi_rule"}
        /\ {1, 2, 3} \subseteq DOMAIN all_results)
        => LET V == Outcomes({<<1,1,0,0>>, <<0,0,1,1>>})
           IN  /\ MoreLikely(all_results[2], all_results[1], V)
               /\ MoreLikely(all_results[2], all_results[3], V)

C10_Witness ==
    /\ script = "architect_multi_rule"
    /\ {1, 2, 3} \subseteq DOMAIN all_results
    /\ bpc = "idle"

\* p + q * sqrt 2 >= 0
NonNegative(p, q) == ~Positive(-p, -q)

\* C11 (as claimed): with 2 Grover iterations, the circuit for the
\* {1100, 0011} predicate puts at least 90% of the measurement probability
\* on the two marked assignments.
C11_OptimalCountReaches90 ==
    (script \in {"architect_v2", "architect_multi_rule"} /\ 2 \in DOMAIN all_results)
        => LET r == all_results[2]
               pv == ProbOf(r.dist, Outcomes({<<1,1,0,0>>, <<0,0,1,1>>}))
           IN  NonNegative(10 * pv[1] - 9 * (2 ^ r.e), 10 * pv[2])

\* C18: the built circuit ends with its only measurement, which lists
\* exactly the data qubits q0..q(N-1) in index order and no marker or helper
\* qubit; each outcome is an integer in 0..2^N-1 whose N-character binary
\* rendering shows the value of data qubit i at character position i.
C18_MeasureDataQubitsInOrder ==
    (mode = "grover" /\ bpc = "built") =>
        LET last == circuit[Len(circuit)]
            N == Len(DataQubits(script))
        IN  /\ last.g = "M"
            /\ last.t = [i \in 1..N |-> i - 1]
            /\ \A k \in 1..(Len(circuit) - 1) : circuit[k].g # "M"
            /\ pc = Len(circuit) =>
                 \A s \in DOMAIN psi :
                    LET o == BigEndian(BitsOf(s, last.t))
                    IN  /\ o \in 0..(2 ^ N - 1)
                        /\ \A i \in 0..(N - 1) : FormatBin(o, N)[i + 1] = Bit(s, i)

C18_Witness ==
    /\ mode = "grover" /\ bpc = "built" /\ script = "grover" /\ n = 1
    /\ pc = Len(circuit)
    /\ \E s \in DOMAIN psi : Bit(s, 0) = 1 /\ Bit(s, 3) = 0 /\ Bit(s, 4) = 1

----------------------------------------------------------------------------
(* Pattern blocks of the oracles *)

PlainX(gate) == gate.g = "X" /\ gate.c = {}

\* the qubits flipped an odd number of times by the plain X gates c[1..k]
XParity(c, k) ==
    LET flips(q) == {j \in 1..k : PlainX(c[j]) /\ c[j].t[1] = q}
    IN  {q \in {c[j].t[1] : j \in 1..k} : Cardinality(flips(q)) % 2 = 1}

\* the targets of the gates c[a..b], in order
TargetsOf(c, a, b) == [j \in 1..(b - a + 1) |-> c[a + j - 1].t[1]]

\* the pattern list an enumerate-and-toggle oracle runs through, in the order
\* of its multi-controlled gates
PatternSeq(sc) ==
    CASE sc = "grover" -> two_public_patterns
      [] sc = "architect_v2" ->
            two_of_four_patterns \o Reverse(two_of_four_patterns)
      [] sc = "architect_multi_rule" ->
            two_of_four_patterns_multi_rule \o Reverse(two_of_four_patterns_multi_rule)
      [] OTHER -> <<>>

DataSet(sc) == {DataQubits(sc)[i] : i \in 1..Len(DataQubits(sc))}

\* the positions of the gates controlled on every data qubit, in order
PatternGates(sc, c) ==
    SelectSeq([k \in 1..Len(c) |-> k], LAMBDA k : c[k].c = DataSet(sc))

\* the block around the controlled gate c[k]: X gates from the last point
\* where all X gates so far cancel, up to the next such point
BlockStart(c, k) ==
    CHOOSE a \in 0..(k - 1) :
        /\ XParity(c, a) = {}
        /\ \A j \in (a + 1)..(k - 1) : XParity(c, j) # {}
BlockEnd(c, k) ==
    IF \E b \in k..Len(c) : XParity(c, b) = {}
    THEN CHOOSE b \in k..Len(c) :
            /\ XParity(c, b) = {}
            /\ \A j \in k..(b - 1) : XParity(c, j) # {}
    ELSE 0

\* C19: each pattern block restores the data register. Around every
\* controlled gate the X gates placed before it and the X gates placed after
\* it flip the same data qubits, which are the qubits whose pattern bit is 0;
\* after each block and after the whole oracle every data qubit holds its
\* input value.
C19_PatternBlocksRestoreData ==
    mode = "oracle" /\ ~raised =>
        LET data == DataQubits(script)
            pg == PatternGates(script, circuit)
            pats == PatternSeq(script)
        IN  /\ pc = 1 =>
                /\ XParity(circuit, Len(circuit)) = {}
                /\ \A k \in 1..Len(circuit) :
                     circuit[k].c # {} =>
                        LET a == BlockStart(circuit, k)
                            b == BlockEnd(circuit, k)
                        IN  /\ b >= k
                            /\ \A j \in ((a + 1)..(k - 1)) \cup ((k + 1)..b) :
                                  PlainX(circuit[j]) /\ circuit[j].t[1] \in DataSet(script)
                            /\ TargetsOf(circuit, a + 1, k - 1) = TargetsOf(circuit, k + 1, b)
                /\ pats # <<>> =>
                     /\ Len(pg) = Len(pats)
                     /\ \A j \in 1..Len(pg) :
                          XParity(circuit, pg[j] - 1)
                            = {data[i] : i \in {i \in 1..Len(data) : pats[j][i] = 0}}
            /\ (pc >= 1 /\ XParity(circuit, pc - 1) = {}) =>
                 \A i \in 1..Len(data) : OutBit(data[i]) = input[i]

C19_Witness ==
    /\ mode = "oracle" /\ ~raised /\ script = "grover" /\ input = <<1, 0, 1, 0>>
    /\ pc - 1 = 10
    /\ XParity(circuit, 9) = {3} /\ XParity(circuit, 10) = {}
    /\ OutBit(4) = 1

----------------------------------------------------------------------------
(* Oracle construction *)

\* the number of qubits the oracle's docstring and unpacking declare: data
\* qubits, the marker val, and the ancillas
DeclaredLayout(sc) ==
    CASE sc = "grover" -> 6
      [] sc \in {"architect_v2", "architect_multi_rule"} -> 9
      [] sc = "architect_adjacency" -> 8
      [] sc = "architect_3room" -> 4
      [] OTHER -> num_qubits

\* the call has returned or raised
OracleCalled == mode = "oracle" /\ (pc >= 1 \/ raised)

\* C15 (as claimed): an oracle called with a qubit list that is shorter or
\* longer than its declared layout raises an error, and no gate has been
\* appended to the circuit when it does.
C15_LayoutMismatchRejected ==
    (OracleCalled /\ Len(qubits_arg) # DeclaredLayout(script))
        => raised /\ circuit = <<>>

----------------------------------------------------------------------------
(* Compute / uncompute order of the compound oracles *)

\* the controlled gates of c in circuit order, each with the data qubits
\* that the X gates before it have flipped (its pattern's zero positions)
ControlledSteps(c) ==
    LET pos == SelectSeq([k \in 1..Len(c) |-> k], LAMBDA k : c[k].c # {})
    IN  [j \in 1..Len(pos) |->
            [t |-> c[pos[j]].t[1], c |-> c[pos[j]].c, zeros |-> XParity(c, pos[j] - 1)]]

\* LineQubit ids of val and of the ancillas, from the oracle's unpacking;
\* a_count = -1 where the oracle has none
Ancillas(sc) ==
    IF sc = "architect_adjacency"
    THEN [val |-> 4, a_count |-> -1, a_adj0 |-> 5, a_adj1 |-> 6, a_xor |-> 7]
    ELSE [val |-> 4, a_count |-> 5, a_adj0 |-> 6, a_adj1 |-> 7, a_xor |-> 8]

ZerosOf(pattern) == {i - 1 : i \in {i \in 1..Len(pattern) : pattern[i] = 0}}

CompoundOracles == {"architect_v2", "architect_multi_rule", "architect_adjacency"}

\* C20: the compound oracles uncompute in exact reverse order. The
\* controlled gates compute a_count (when present), a_adj0, a_adj1, a_xor,
\* then flip the marker once, then uncompute a_xor, a_adj1, a_adj0, a_count:
\* the gate sequence after the marker flip is the mirror image of the one
\* before it, the two CNOTs onto a_xor come back in swapped order, and the
\* 2-of-4 patterns are replayed last pattern first.
C20_UncomputeInReverseOrder ==
    (mode = "oracle" /\ pc >= 1 /\ script \in CompoundOracles) =>
        LET S == ControlledSteps(circuit)
            L == Len(S)
            a == Ancillas(script)
            pats == IF script = "architect_adjacency" THEN <<>>
                    ELSE IF script = "architect_v2" THEN two_of_four_patterns
                    ELSE two_of_four_patterns_multi_rule
            k == Len(pats)
            mid == k + 5
        IN  /\ L = 2 * mid - 1
            /\ \A j \in 1..L : S[j] = S[L + 1 - j]
            /\ \A j \in 1..L : S[j].t = a.val <=> j = mid
            /\ S[mid].c = (IF k = 0 THEN {} ELSE {a.a_count}) \cup {a.a_xor}
            /\ \A j \in 1..k :
                  /\ S[j].t = a.a_count /\ S[j].zeros = ZerosOf(pats[j])
                  /\ S[mid + 4 + j].t = a.a_count
                  /\ S[mid + 4 + j].zeros = ZerosOf(pats[k + 1 - j])
            /\ [j \in 1..4 |-> S[k + j].t] = <<a.a_adj0, a.a_adj1, a.a_xor, a.a_xor>>
            /\ [j \in 1..4 |-> S[mid + j].t] = <<a.a_xor, a.a_xor, a.a_adj1, a.a_adj0>>
            /\ [j \in 1..2 |-> S[k + 2 + j].c] = <<{a.a_adj0}, {a.a_adj1}>>
            /\ [j \in 1..2 |-> S[mid + j].c] = <<{a.a_adj1}, {a.a_adj0}>>

C20_Witness ==
    /\ OracleDone /\ script = "architect_v2" /\ input = <<1, 1, 0, 0>>
    /\ Len(ControlledSteps(circuit)) = 21
    /\ OutBit(4) = 1
    /\ \A q \in Helpers(script) : OutBit(q) = 0

----------------------------------------------------------------------------
(* Shots and their histogram: result = simulator.run(circuit, repetitions), *)
(* counts = result.histogram(key='result'), print_results(counts, iters)    *)

\* result.histogram: a Counter over the samples; each sample adds one to its
\* own entry, creating the entry on first sight
RECURSIVE histogram(_)
histogram(ss) ==
    IF ss = <<>> THEN <<>>
    ELSE LET rest == histogram(SubSeq(ss, 1, Len(ss) - 1))
             x == ss[Len(ss)]
         IN  IF x \in DOMAIN rest
             THEN [rest EXCEPT ![x] = @ + 1]
             ELSE (x :> 1) @@ rest

\* the number of distinct keys, in place of the sum of the values
SumValues_keys(d) == Cardinality(DOMAIN d)

\* sum(counts.values())
RECURSIVE SumValues(_)
SumValues(d) ==
    IF DOMAIN d = {} THEN 0
    ELSE LET x == CHOOSE u \in DOMAIN d : TRUE
         IN  d[x] + SumValues([u \in DOMAIN d \ {x} |-> d[u]])

\* the values one shot can give: the integers of the 4 measured data qubits
ShotValues == 0..15

InitHistogram ==
    /\ script \in {"grover", "architect_v2", "architect_multi_rule", "architect_adjacency"}
    /\ mode = "histogram"
    /\ input = <<>>
    /\ n = 0
    /\ bpc = "built"
    /\ it = 0
    /\ circuit = <<>>
    /\ pc = 0
    /\ psi = <<>>
    /\ h = 0
    /\ all_results = <<>>
    /\ qubits_arg = LineQubitRange(NumQubits(script))
    /\ raised = FALSE
    /\ returned = <<>>
    /\ logger = NoLogger
    /\ repetitions \in 1..MaxShots
    /\ samples = <<>>
    /\ counts = <<>>
    /\ total_counts = 0
    /\ hpc = "run"
    /\ TurtleIdle

\* one more repetition of the circuit yields one more sample
Shot(o) ==
    /\ mode = "histogram"
    /\ hpc = "run"
    /\ Len(samples) < repetitions
    /\ samples' = Append(samples, o)
    /\ UNCHANGED <<gvars, tvars, repetitions, counts, total_counts, hpc>>

\* all_results[iters] = result.histogram(key='result'); counts = all_results[iters]
TakeHistogram ==
    /\ mode = "histogram"
    /\ hpc = "run"
    /\ Len(samples) = repetitions
    /\ counts' = histogram(samples)
    /\ hpc' = "counted"
    /\ UNCHANGED <<gvars, tvars, repetitions, samples, total_counts>>

\* total = sum(counts.values()); print(f"Results from {total} shots:")
print_results ==
    /\ mode = "histogram"
    /\ hpc = "counted"
    /\ total_counts' = SumValues(counts)
    /\ hpc' = "printed"
    /\ UNCHANGED <<gvars, tvars, repetitions, samples, counts>>

NextHistogram ==
    \/ \E o \in ShotValues : Shot(o)
    \/ TakeHistogram
    \/ print_results

SpecHistogram == InitHistogram /\ [][NextHistogram]_vars

\* how many of the samples equal o
Occurrences(o) == Cardinality({i \in 1..Len(samples) : samples[i] = o})

\* C16: the histogram maps each assignment to the number of samples equal to
\* it and lists no assignment that has no sample; the total the reporter
\* prints, the sum of all counts, is the number of samples, which is the
\* repetitions passed to the simulator.
C16_HistogramExact ==
    /\ hpc \in {"counted", "printed"} =>
          /\ DOMAIN counts = {o \in ShotValues : Occurrences(o) > 0}
          /\ \A o \in DOMAIN counts : counts[o] = Occurrences(o)
          /\ Len(samples) = repetitions
    /\ hpc = "printed" => total_counts = Len(samples) /\ total_counts = repetitions

C16_Witness ==
    /\ hpc = "printed"
    /\ samples = <<12, 3, 3>>
    /\ counts = (3 :> 2) @@ (12 :> 1)
    /\ total_counts = 3

----------------------------------------------------------------------------
(* The turtle scripts: entangled_turtles.py, quantum_turtles/quantum_turtle.py, *)
(* quantum_turtles_random_turn/quantum_turtle.py, phase_turtles.py              *)
(* GridQubit(0, i) is qubit i. Headings are in half degrees, modulo 720.        *)

TurtleScripts ==
    {"entangled_turtles", "quantum_turtle", "quantum_turtle_random_turn", "phase_turtles"}

\* passes of "for _ in range(100)" (range(200) in phase_turtles.py) followed
MaxPasses == 3

\* largest steps argument handed to quantum_walk
MaxSteps == 2

\* an "entanglement" that puts a Hadamard on each qubit and no CNOT
create_entanglement_h_both(qubit1, qubit2) == <<H(qubit1), H(qubit2)>>

\* QuantumEntanglement.create_entanglement
create_entanglement(qubit1, qubit2) == <<H(qubit1), CNOT(qubit1, qubit2)>>

\* the operations one walk step appends after "self.circuit = cirq.Circuit()"
WalkCircuit(sc) ==
    CASE sc = "entangled_turtles" ->
            create_entanglement(0, 1) \o <<measure(<<0>>), measure(<<1>>)>>
      [] sc = "quantum_turtle" -> <<H(0), measure(<<0>>)>>
      [] sc = "quantum_turtle_random_turn" ->
            <<H(4)>> \o H_on_each(<<0, 1, 2, 3>>)
            \o <<measure(<<0, 1, 2, 3>>), measure(<<4>>)>>
      [] OTHER -> <<>>

\* the measured qubits of c in the order of its measurements
MeasuredQubits(c) ==
    Flatten([k \in 1..Len(c) |-> IF c[k].g = "M" THEN c[k].t ELSE <<>>])

\* simulator.run(circuit, repetitions=1): the state the gates of c produce
RECURSIVE RunGates(_, _, _)
RunGates(c, f, e) ==
    IF c = <<>> THEN [psi |-> f, h |-> e]
    ELSE LET r == ApplyGate(Head(c), f, e)
         IN  RunGates(Tail(c), r.psi, r.h)

\* the measurement records one repetition of c can give
Measurements(c) ==
    LET r == RunGates(c, [s \in {0} |-> <<1, 0>>], 0)
    IN  {BitsOf(s, MeasuredQubits(c)) : s \in DOMAIN r.psi}

Turn(hd, halfdeg) == (hd + halfdeg) % 720

\* a draw_quantum_paths that follows the |0> path on a tie
draw_quantum_paths_tie_to_0(hd, prob_0, prob_1) ==
    IF prob_0 >= prob_1 THEN Turn(hd, 90) ELSE Turn(hd, -90)

\* TurtleDrawer.draw_quantum_paths: the turtle ends on the path of the
\* larger probability, heading original_heading + 45 or - 45 degrees
draw_quantum_paths(hd, prob_0, prob_1) ==
    IF prob_0 > prob_1 THEN Turn(hd, 90) ELSE Turn(hd, -90)

\* the pen colour draw_quantum_paths leaves: it keeps the colour at entry,
\* paints the |0> path darker magenta and the |1> path darker yellow, and
\* sets the kept colour again before the last move
draw_quantum_paths_pencolor(color) ==
    LET original_color == color
        on_path_0 == "darker magenta"
        on_path_1 == "darker yellow"
        restored == original_color
    IN  restored

\* the drawers a script owns: drawer1 and drawer2 of QuantumEntanglement,
\* the one drawer of QuantumTurtle
Drawers_one(sc) == {1}

Drawers(sc) == IF sc = "entangled_turtles" THEN {1, 2} ELSE {1}

\* TurtleDrawer(color=...): blue and green in entangled_turtles.py, the
\* default cyan elsewhere
DrawerColor(sc) ==
    IF sc = "entangled_turtles" THEN <<"blue", "green">> ELSE <<"cyan", "cyan">>

\* TurtleDrawer.rotate: t.right(angle), angle in half degrees
rotate(hd, angle) == Turn(hd, -angle)

\* rotation_value = sum(bit << i for i, bit in enumerate(rotation_bits))
RECURSIVE rotation_value(_)
rotation_value(bits) ==
    IF bits = <<>> THEN 0 ELSE Head(bits) + 2 * rotation_value(Tail(bits))

InitTurtle ==
    /\ script \in TurtleScripts
    /\ mode = "turtle"
    /\ input = <<>>
    /\ n = 0
    /\ bpc = "idle"
    /\ it = 0
    /\ circuit = <<>>
    /\ pc = 0
    /\ psi = <<>>
    /\ h = 0
    /\ all_results = <<>>
    /\ qubits_arg = <<>>
    /\ raised = FALSE
    /\ returned = <<>>
    /\ logger = NoLogger
    /\ HistIdle
    /\ pil \in BOOLEAN
    /\ tpc = "import"
    /\ passes = 0
    /\ steps_arg \in 1..MaxSteps
    /\ walked = 0
    /\ meas = <<>>
    /\ heading = [d \in {1, 2} |-> 0]
    /\ frames = [d \in {1, 2} |-> 0]
    /\ is_recording = [d \in {1, 2} |-> FALSE]
    /\ console = {}
    /\ exc = "none"
    /\ saved = {}
    /\ pencolor = [d \in {1, 2} |-> "cyan"]
    /\ calls = <<>>

\* the untouched rest of the state in a turtle script
rest == <<script, mode, input, n, bpc, it, pc, psi, h, all_results, ovars, bvars, hvars, pil, steps_arg,
          calls>>

\* the imports at the top of the script; phase_turtles.py has
\* "from PIL import Image, ImageGrab" there, outside any try
Import ==
    /\ mode = "turtle"
    /\ tpc = "import"
    /\ IF script = "phase_turtles" /\ ~pil
       THEN exc' = "ImportError" /\ tpc' = "crashed"
       ELSE exc' = exc /\ tpc' = "main"
    /\ UNCHANGED <<rest, pencolor, circuit, passes, walked, meas, heading, frames, is_recording,
                   console, saved>>

\* main up to the loop: the objects are constructed (frames = [],
\* is_recording = False, an empty circuit), entangled_turtles.py calls
\* qe.create_entanglement(), and the TurtleDrawer scripts call
\* start_gif_recording() on the one drawer they record
Setup ==
    /\ mode = "turtle"
    /\ tpc = "main"
    /\ circuit' = IF script = "entangled_turtles" THEN create_entanglement(0, 1) ELSE <<>>
    /\ frames' = [d \in {1, 2} |-> 0]
    /\ is_recording' = [d \in {1, 2} |-> d = 1 /\ script # "phase_turtles"]
    /\ pencolor' = [d \in {1, 2} |-> DrawerColor(script)[d]]
    /\ tpc' = "loop"
    /\ UNCHANGED <<rest, passes, walked, meas, heading, console, exc, saved>>

\* "for _ in range(...)": the next pass, or on to the save calls
LoopTest ==
    /\ mode = "turtle"
    /\ tpc = "loop"
    /\ IF ~RangeExhausted(passes, MaxPasses)
       THEN tpc' = "walk"
       ELSE tpc' = IF script = "phase_turtles" THEN "save_animation" ELSE "save_png"
    /\ walked' = 0
    /\ UNCHANGED <<rest, pencolor, circuit, passes, meas, heading, frames, is_recording,
                   console, exc, saved>>

\* qt.quantum_walk(steps=...) or qe.measure_entangled_states(): a fresh
\* circuit, one run, one draw_quantum_paths per drawer; the steps argument
\* is not read. The random-turn script also rotates by rotation_value/16*360.
quantum_walk(m) ==
    /\ mode = "turtle"
    /\ tpc = "walk"
    /\ script # "phase_turtles"
    /\ circuit' = FreshCircuit(circuit) \o WalkCircuit(script)
    /\ m \in Measurements(FreshCircuit(circuit) \o WalkCircuit(script))
    /\ meas' = m
    /\ LET movement == IF script = "entangled_turtles" THEN m[1] ELSE m[Len(m)]
           prob_0 == IF movement = 0 THEN 1 ELSE 0
           prob_1 == IF movement = 1 THEN 1 ELSE 0
           rotation_angle == 45 * rotation_value(SubSeq(m, 1, 4))
           walk(hd) ==
               IF script = "quantum_turtle_random_turn"
               THEN rotate(draw_quantum_paths(hd, prob_0, prob_1), rotation_angle)
               ELSE draw_quantum_paths(hd, prob_0, prob_1)
       IN  /\ heading' = [d \in {1, 2} |->
                            IF d \in Drawers(script) THEN walk(heading[d]) ELSE heading[d]]
           /\ pencolor' = [d \in {1, 2} |->
                            IF d \in Drawers(script)
                            THEN draw_quantum_paths_pencolor(pencolor[d]) ELSE pencolor[d]]
    /\ walked' = walked + 1
    /\ tpc' = IF script = "quantum_turtle_random_turn" THEN "capture" ELSE "rotate"
    /\ UNCHANGED <<rest, passes, frames, is_recording, console, exc, saved>>

\* drawer.rotate(36), on both drawers in entangled_turtles.py
Rotate36 ==
    /\ mode = "turtle"
    /\ tpc = "rotate"
    /\ heading' = [d \in {1, 2} |->
                     IF d \in Drawers(script)
                     THEN rotate(heading[d], 72) ELSE heading[d]]
    /\ tpc' = "capture"
    /\ UNCHANGED <<rest, pencolor, circuit, passes, walked, meas, frames, is_recording,
                   console, exc, saved>>

\* TurtleDrawer.capture_frame on drawer 1; grabbed tells whether
\* ImageGrab.grab returns an image or raises
capture_frame(grabbed) ==
    /\ mode = "turtle"
    /\ tpc = "capture"
    /\ IF ~is_recording[1]
       THEN UNCHANGED <<frames, console, exc>> /\ tpc' = "loop"
       ELSE IF ~pil
       THEN /\ console' = console \cup {"PIL is required for GIF creation"}
            /\ UNCHANGED <<frames, exc>>
            /\ tpc' = "loop"
       ELSE IF grabbed
       THEN /\ frames' = [frames EXCEPT ![1] = @ + 1]
            /\ UNCHANGED <<console, exc>>
            /\ tpc' = "loop"
       ELSE /\ exc' = "OSError"
            /\ tpc' = "crashed"
            /\ UNCHANGED <<frames, console>>
    /\ passes' = passes + 1
    /\ UNCHANGED <<rest, pencolor, circuit, walked, meas, heading, is_recording, saved>>

\* QuantumWalkAgent.take_quantum_step: the step, then ImageGrab.grab and
\* frames.append with no try around them
take_quantum_step(grabbed) ==
    /\ mode = "turtle"
    /\ tpc = "walk"
    /\ script = "phase_turtles"
    /\ IF grabbed
       THEN /\ frames' = [frames EXCEPT ![1] = @ + 1]
            /\ exc' = exc
            /\ tpc' = "loop"
       ELSE /\ exc' = "OSError"
            /\ tpc' = "crashed"
            /\ frames' = frames
    /\ walked' = walked + 1
    /\ passes' = passes + 1
    /\ UNCHANGED <<rest, pencolor, circuit, meas, heading, is_recording, console, saved>>

\* TurtleDrawer.save_drawing_as_png; written tells whether grab and save
\* return or raise
save_drawing_as_png(written) ==
    /\ mode = "turtle"
    /\ tpc = "save_png"
    /\ IF ~pil
       THEN /\ console' = console \cup {"PIL is required for PNG export"}
            /\ UNCHANGED <<saved, exc>>
            /\ tpc' = "save_gif"
       ELSE IF written
       THEN /\ saved' = saved \cup {"png"}
            /\ console' = console \cup {"Drawing saved"}
            /\ exc' = exc
            /\ tpc' = "save_gif"
       ELSE /\ exc' = "OSError"
            /\ tpc' = "crashed"
            /\ UNCHANGED <<saved, console>>
    /\ UNCHANGED <<rest, pencolor, circuit, passes, walked, meas, heading, frames, is_recording>>

\* TurtleDrawer.save_as_gif: "except Exception" around the save
save_as_gif(written) ==
    /\ mode = "turtle"
    /\ tpc = "save_gif"
    /\ IF frames[1] = 0
       THEN /\ console' = console \cup {"No frames recorded"}
            /\ saved' = saved
       ELSE IF written
       THEN /\ saved' = saved \cup {"gif"}
            /\ console' = console \cup {"Animation saved"}
       ELSE /\ console' = console \cup {"Error saving GIF"}
            /\ saved' = saved
    /\ tpc' = "done"
    /\ UNCHANGED <<rest, pencolor, circuit, passes, walked, meas, heading, frames, is_recording, exc>>

\* QuantumWalkAgent.save_animation: "if self.frames:" and no try
save_animation(written) ==
    /\ mode = "turtle"
    /\ tpc = "save_animation"
    /\ IF frames[1] = 0
       THEN UNCHANGED <<saved, console, exc>> /\ tpc' = "done"
       ELSE IF written
       THEN /\ saved' = saved \cup {"gif"}
            /\ console' = console \cup {"Animation saved"}
            /\ exc' = exc
            /\ tpc' = "done"
       ELSE /\ exc' = "OSError"
            /\ tpc' = "crashed"
            /\ UNCHANGED <<saved, console>>
    /\ UNCHANGED <<rest, pencolor, circuit, passes, walked, meas, heading, frames, is_recording>>

NextTurtle ==
    \/ Import
    \/ Setup
    \/ LoopTest
    \/ \E m \in BitSeqs(1) \cup BitSeqs(2) \cup BitSeqs(5) : quantum_walk(m)
    \/ Rotate36
    \/ \E grabbed \in BOOLEAN : capture_frame(grabbed)
    \/ \E grabbed \in BOOLEAN : take_quantum_step(grabbed)
    \/ \E written \in BOOLEAN : save_drawing_as_png(written)
    \/ \E written \in BOOLEAN : save_as_gif(written)
    \/ \E written \in BOOLEAN : save_animation(written)

SpecTurtle == InitTurtle /\ [][NextTurtle]_vars

\* C12: in every run of the circuit of measure_entangled_states the two
\* measured values are equal: (0,1) and (1,0) never come out, (0,0) and
\* (1,1) do.
C12_EntangledMeasurementsAgree ==
    (mode = "turtle" /\ script = "entangled_turtles" /\ meas # <<>>)
        => /\ meas \in {<<0, 0>>, <<1, 1>>}
           /\ Measurements(circuit) = {<<0, 0>>, <<1, 1>>}

\* a first pass that measured (0,0) and a second that measured (1,1)
C12_Witness ==
    /\ mode = "turtle" /\ script = "entangled_turtles"
    /\ tpc = "rotate" /\ passes = 1
    /\ meas = <<1, 1>>
    /\ heading[1] = 648 /\ heading[2] = 648

\* C13 (as claimed): with PIL missing no script crashes: no exception
\* propagates, no frame is added, and the run goes on to its end.
C13_MissingPILDegrades ==
    (mode = "turtle" /\ ~pil) =>
        /\ exc = "none"
        /\ tpc # "crashed"
        /\ frames[1] = 0
        /\ tpc = "done" => console # {}

\* C14 (as claimed): an error raised while a frame is captured or the PNG or
\* the GIF is saved is caught and reported; the run is never ended by it.
C14_RenderingErrorsRecovered ==
    (mode = "turtle" /\ pil) => exc = "none" /\ tpc # "crashed"

\* C17 (as claimed): when quantum_walk(steps) returns it has made steps
\* superposition-measure-draw steps.
C17_WalkMakesStepsSteps ==
    (mode = "turtle" /\ script \in {"quantum_turtle", "quantum_turtle_random_turn"}
        /\ tpc \in {"rotate", "capture"})
        => walked = steps_arg

----------------------------------------------------------------------------
(* Toggles of the enumerate-and-toggle oracles *)

\* the qubit the pattern blocks toggle: val, or a_count where the oracle
\* counts into an ancilla
ToggleTarget(sc) ==
    CASE sc \in {"architect_v2", "architect_multi_rule"} -> 5
      [] sc = "architect_3room" -> 3
      [] OTHER -> 4

\* the last gate of the compute phase: the gate before the marker flip of
\* the counting oracles, the gate before the CZ of the 3-room oracle, the
\* last gate of the oracle of grover.py
ComputeEnd(sc, c) ==
    CASE sc \in {"architect_v2", "architect_multi_rule"} ->
            (CHOOSE k \in 1..Len(c) : c[k].t[1] = 4) - 1
      [] sc = "architect_3room" -> (CHOOSE k \in 1..Len(c) : c[k].g = "Z") - 1
      [] OTHER -> Len(c)

\* the gate about to run is a pattern block's controlled gate of the compute
\* phase, and its controls are all 1: it toggles the target
TogglesNow ==
    /\ mode = "oracle"
    /\ pc >= 1
    /\ pc <= ComputeEnd(script, circuit)
    /\ circuit[pc].c # {}
    /\ circuit[pc].t[1] = ToggleTarget(script)
    /\ Ctrl(circuit[pc], OutState)

EnumerateAndToggle == {"grover", "architect_v2", "architect_multi_rule", "architect_3room"}

\* C21 (as claimed): in every enumerate-and-toggle oracle, for every basis
\* assignment of the data qubits, at most one pattern block toggles its
\* target during the compute phase: the target, which starts at 0, is still 0
\* whenever a block is about to toggle it.
C21_AtMostOneToggle ==
    (script \in EnumerateAndToggle /\ TogglesNow) => OutBit(ToggleTarget(script)) = 0

----------------------------------------------------------------------------
(* The diffusion block alone on a basis input of the data qubits *)

InitDiffusion ==
    /\ script \in Scripts
    /\ mode = "diffusion"
    /\ input \in BitSeqs(Len(DataQubits(script)))
    /\ n = 0
    /\ bpc = "built"
    /\ it = 0
    /\ circuit = diffusion(DataQubits(script))
    /\ pc = 1
    /\ psi = [s \in {BasisOf(input, DataQubits(script))} |-> <<1, 0>>]
    /\ h = 0
    /\ all_results = <<>>
    /\ qubits_arg = LineQubitRange(NumQubits(script))
    /\ raised = FALSE
    /\ returned = <<>>
    /\ logger = NoLogger
    /\ HistIdle
    /\ TurtleIdle

\* the simulator applies the next gate of the diffusion
DiffusionStep ==
    /\ mode = "diffusion"
    /\ pc \in 1..Len(circuit)
    /\ LET r == ApplyGate(circuit[pc], psi, h)
       IN  /\ psi' = r.psi
           /\ h' = r.h
    /\ pc' = pc + 1
    /\ UNCHANGED <<script, mode, input, n, bpc, it, circuit, all_results, ovars, bvars, hvars, tvars>>

NextDiffusion == DiffusionStep

SpecDiffusion == InitDiffusion /\ [][NextDiffusion]_vars

DiffusionDone == mode = "diffusion" /\ pc > Len(circuit)

\* the amplitude (a + b * sqrt 2) / (sqrt 2)^e equals sign * c / 2^k
EqualsRational(p, e, sign, c, k) ==
    IF e % 2 = 0
    THEN p[2] = 0 /\ (2 ^ k) * p[1] = sign * c * (2 ^ (e \div 2))
    ELSE p[1] = 0 /\ (2 ^ k) * p[2] = sign * c * (2 ^ ((e - 1) \div 2))

\* psi is sign times the reflection about the mean of the basis vector x over
\* N qubits: entry y is 2 * mean - [x = y] with mean = 1 / 2^N
IsReflectionOf(x, N, sign) ==
    \A y \in 0..(2 ^ N - 1) :
        EqualsRational(Amp(psi, y), h, sign, IF y = x THEN 1 - 2 ^ (N - 1) ELSE 1, N - 1)

\* C22 (as claimed): applied to an amplitude vector a, the diffusion block
\* yields, up to one global sign, the vector with entries 2*mean(a) - a[x];
\* stated for every basis vector a.
C22_DiffusionReflectsAboutMean ==
    DiffusionDone =>
        \E sign \in {1, -1} :
            IsReflectionOf(BasisOf(input, DataQubits(script)), Len(DataQubits(script)), sign)

\* C23: every walk step runs a fresh circuit. After any number of calls of
\* quantum_walk or measure_entangled_states, the create_entanglement() call
\* of main included, the circuit handed to the simulator holds one step's
\* operations only: (H, measure) for the single turtle, (H, CNOT, measure
\* q1, measure q2) for the entangled turtles.
C23_FreshCircuitPerStep ==
    (mode = "turtle" /\ meas # <<>>) =>
        /\ script = "quantum_turtle" => circuit = <<H(0), measure(<<0>>)>>
        /\ script = "entangled_turtles" =>
              circuit = <<H(0), CNOT(0, 1), measure(<<0>>), measure(<<1>>)>>
        /\ script = "quantum_turtle_random_turn" =>
              /\ Len(circuit) = 7
              /\ \A k \in 1..5 : circuit[k].g = "H"
              /\ \A k \in 6..7 : circuit[k].g = "M"

\* the third call of measure_entangled_states has run
C23_Witness ==
    /\ mode = "turtle" /\ script = "entangled_turtles"
    /\ passes = 2 /\ walked = 1 /\ tpc = "rotate"
    /\ Len(circuit) = 4

\* C24: build_grover_circuit carries no state between builds. A call with a
\* num_iterations that was built before, whatever was built and run in
\* between, returns the gate sequence the first such call returned, and in
\* the returned circuit the oracle of iteration k is gate for gate the
\* oracle of iteration 1.
C24_BuildIsDeterministic ==
    (mode = "grover" /\ bpc = "built") =>
        /\ n \in DOMAIN returned /\ circuit = returned[n]
        /\ n >= 1 =>
             LET nd == Len(DataQubits(script))
                 blk == (Len(circuit) - nd - 1) \div n
                 olen == blk - (4 * nd + 1)
                 oracle_of(k) == SubSeq(circuit, nd + (k - 1) * blk + 1, nd + (k - 1) * blk + olen)
             IN  /\ Len(circuit) = nd + n * blk + 1
                 /\ \A k \in 1..n : oracle_of(k) = oracle_of(1)

\* build(2) is returned a second time after build(1) was built and run
C24_Witness ==
    /\ mode = "grover" /\ bpc = "built" /\ script = "grover"
    /\ n = 2
    /\ DOMAIN all_results = {1, 2}
    /\ DOMAIN returned = {1, 2}
    /\ Len(circuit) > 2 * Len(Oracle(script))

\* C28: the two entangled turtles move in step. At every point of the main
\* loop of entangled_turtles.py, whatever was measured, drawer1 and drawer2
\* have equal headings, so each pass took both down the same branch.
C28_EntangledTurtlesInSync ==
    (mode = "turtle" /\ script = "entangled_turtles") => heading[1] = heading[2]

\* both turtles after a (1,1) pass that followed a (0,0) pass, rotated
C28_Witness ==
    /\ mode = "turtle" /\ script = "entangled_turtles"
    /\ tpc = "capture" /\ passes = 1
    /\ meas = <<1, 1>>
    /\ heading[1] = 576 /\ heading[2] = 576

----------------------------------------------------------------------------
(* A TurtleDrawer, or the QuantumWalkAgent of phase_turtles.py, driven call *)
(* by call in any order. calls lists the calls made, each with the heading  *)
(* and pen colour at entry and the probabilities passed.                    *)

\* calls followed on one object
MaxCalls == 4

\* (prob_0, prob_1) passed to draw_quantum_paths, in halves: (1, 0) and
\* (0, 1) as the scripts pass after a measurement, and the tie (1/2, 1/2)
ProbPairs == {<<2, 0>>, <<0, 2>>, <<1, 1>>}

Entry(op, p) ==
    [op |-> op, h0 |-> heading[1], c0 |-> pencolor[1], p0 |-> p[1], p1 |-> p[2]]

InitDrawer ==
    /\ script \in {"entangled_turtles", "phase_turtles"}
    /\ mode = "drawer"
    /\ input = <<>>
    /\ n = 0
    /\ bpc = "idle"
    /\ it = 0
    /\ circuit = <<>>
    /\ pc = 0
    /\ psi = <<>>
    /\ h = 0
    /\ all_results = <<>>
    /\ qubits_arg = <<>>
    /\ raised = FALSE
    /\ returned = <<>>
    /\ logger = NoLogger
    /\ HistIdle
    /\ pil \in (IF script = "phase_turtles" THEN {TRUE} ELSE BOOLEAN)
    /\ tpc = "calls"
    /\ passes = 0
    /\ steps_arg = 1
    /\ walked = 0
    /\ meas = <<>>
    /\ heading = [d \in {1, 2} |-> 0]
    /\ frames = [d \in {1, 2} |-> 0]
    /\ is_recording = [d \in {1, 2} |-> FALSE]
    /\ console = {}
    /\ exc = "none"
    /\ saved = {}
    /\ pencolor \in {[d \in {1, 2} |-> c] : c \in {"cyan", "blue", "green"}}
    /\ calls = <<>>

\* the object takes another call: nothing has raised so far
CanCall(sc) ==
    /\ mode = "drawer"
    /\ script = sc
    /\ exc = "none"
    /\ Len(calls) < MaxCalls

\* the rest of the state in a call on the object
drawer_rest ==
    <<script, mode, input, n, bpc, it, circuit, pc, psi, h, all_results, ovars, bvars, hvars,
      pil, tpc, passes, steps_arg, walked, meas>>

\* TurtleDrawer.start_gif_recording
call_start_gif_recording ==
    /\ CanCall("entangled_turtles")
    /\ frames' = [frames EXCEPT ![1] = 0]
    /\ is_recording' = [is_recording EXCEPT ![1] = TRUE]
    /\ calls' = Append(calls, Entry("start_gif_recording", <<0, 0>>))
    /\ UNCHANGED <<drawer_rest, heading, pencolor, console, exc, saved>>

\* TurtleDrawer.capture_frame
call_capture_frame(grabbed) ==
    /\ CanCall("entangled_turtles")
    /\ IF ~is_recording[1]
       THEN UNCHANGED <<frames, console, exc>>
       ELSE IF ~pil
       THEN /\ console' = console \cup {"PIL is required for GIF creation"}
            /\ UNCHANGED <<frames, exc>>
       ELSE IF grabbed
       THEN /\ frames' = [frames EXCEPT ![1] = @ + 1]
            /\ UNCHANGED <<console, exc>>
       ELSE /\ exc' = "OSError"
            /\ UNCHANGED <<frames, console>>
    /\ calls' = Append(calls, Entry("capture_frame", <<0, 0>>))
    /\ UNCHANGED <<drawer_rest, heading, pencolor, is_recording, saved>>

\* a save_as_gif that empties frames once the file is written
call_save_as_gif_clears(written) ==
    /\ CanCall("entangled_turtles")
    /\ IF frames[1] = 0
       THEN /\ console' = console \cup {"No frames recorded"}
            /\ saved' = saved
       ELSE IF written
       THEN /\ saved' = saved \cup {"gif"}
            /\ console' = console \cup {"Animation saved"}
       ELSE /\ console' = console \cup {"Error saving GIF"}
            /\ saved' = saved
    /\ frames' = [frames EXCEPT ![1] = 0]
    /\ calls' = Append(calls, Entry("save_as_gif", <<0, 0>>))
    /\ UNCHANGED <<drawer_rest, heading, pencolor, is_recording, exc>>

\* TurtleDrawer.save_as_gif
call_save_as_gif(written) ==
    /\ CanCall("entangled_turtles")
    /\ IF frames[1] = 0
       THEN /\ console' = console \cup {"No frames recorded"}
            /\ saved' = saved
       ELSE IF written
       THEN /\ saved' = saved \cup {"gif"}
            /\ console' = console \cup {"Animation saved"}
       ELSE /\ console' = console \cup {"Error saving GIF"}
            /\ saved' = saved
    /\ calls' = Append(calls, Entry("save_as_gif", <<0, 0>>))
    /\ UNCHANGED <<drawer_rest, heading, pencolor, frames, is_recording, exc>>

\* TurtleDrawer.draw_quantum_paths(prob_0, prob_1, distance)
call_draw_quantum_paths(p) ==
    /\ CanCall("entangled_turtles")
    /\ heading' = [heading EXCEPT ![1] = draw_quantum_paths(@, p[1], p[2])]
    /\ pencolor' = [pencolor EXCEPT ![1] = draw_quantum_paths_pencolor(@)]
    /\ calls' = Append(calls, Entry("draw_quantum_paths", p))
    /\ UNCHANGED <<drawer_rest, frames, is_recording, console, exc, saved>>

\* QuantumWalkAgent.take_quantum_step
call_take_quantum_step(grabbed) ==
    /\ CanCall("phase_turtles")
    /\ IF grabbed
       THEN frames' = [frames EXCEPT ![1] = @ + 1] /\ exc' = exc
       ELSE exc' = "OSError" /\ frames' = frames
    /\ calls' = Append(calls, Entry("take_quantum_step", <<0, 0>>))
    /\ UNCHANGED <<drawer_rest, heading, pencolor, is_recording, console, saved>>

\* a save_animation without its "if self.frames:", so that frames[0] raises
\* on an empty list
call_save_animation_unguarded(written) ==
    /\ CanCall("phase_turtles")
    /\ IF frames[1] = 0
       THEN exc' = "IndexError" /\ UNCHANGED <<saved, console>>
       ELSE IF written
       THEN /\ saved' = saved \cup {"gif"}
            /\ console' = console \cup {"Animation saved"}
            /\ exc' = exc
       ELSE /\ exc' = "OSError"
            /\ UNCHANGED <<saved, console>>
    /\ calls' = Append(calls, Entry("save_animation", <<0, 0>>))
    /\ UNCHANGED <<drawer_rest, heading, pencolor, frames, is_recording>>

\* QuantumWalkAgent.save_animation
call_save_animation(written) ==
    /\ CanCall("phase_turtles")
    /\ IF frames[1] = 0
       THEN UNCHANGED <<saved, console, exc>>
       ELSE IF written
       THEN /\ saved' = saved \cup {"gif"}
            /\ console' = console \cup {"Animation saved"}
            /\ exc' = exc
       ELSE /\ exc' = "OSError"
            /\ UNCHANGED <<saved, console>>
    /\ calls' = Append(calls, Entry("save_animation", <<0, 0>>))
    /\ UNCHANGED <<drawer_rest, heading, pencolor, frames, is_recording>>

NextDrawer ==
    \/ call_start_gif_recording
    \/ \E grabbed \in BOOLEAN : call_capture_frame(grabbed)
    \/ \E written \in BOOLEAN : call_save_as_gif(written)
    \/ \E p \in ProbPairs : call_draw_quantum_paths(p)
    \/ \E grabbed \in BOOLEAN : call_take_quantum_step(grabbed)
    \/ \E written \in BOOLEAN : call_save_animation(written)

SpecDrawer == InitDrawer /\ [][NextDrawer]_vars

\* the positions in calls of the calls of method op
CallsOf(op) == {i \in 1..Len(calls) : calls[i].op = op}

\* the position of the most recent start_gif_recording, 0 if there is none
LastStart ==
    IF CallsOf("start_gif_recording") = {} THEN 0
    ELSE CHOOSE i \in CallsOf("start_gif_recording") :
            \A j \in CallsOf("start_gif_recording") : j <= i

LastCall == calls[Len(calls)]

SavesWithNoFrames ==
    /\ mode = "drawer"
    /\ frames[1] = 0
    /\ Len(calls') = Len(calls) + 1
    /\ calls'[Len(calls')].op \in {"save_as_gif", "save_animation"}

\* C26: saving an animation with no recorded frames writes no file and
\* raises no error: TurtleDrawer.save_as_gif prints the "No frames recorded"
\* notice and returns, QuantumWalkAgent.save_animation returns without
\* printing, and both leave the frames list unchanged.
C26_EmptySaveIsQuiet ==
    [][SavesWithNoFrames =>
          /\ saved' = saved
          /\ exc' = "none"
          /\ frames' = frames
          /\ console' = IF script = "entangled_turtles"
                        THEN console \cup {"No frames recorded"}
                        ELSE console]_vars

\* a QuantumWalkAgent whose save_animation was called before any step
C26_Witness ==
    /\ mode = "drawer" /\ script = "phase_turtles"
    /\ Len(calls) = 1 /\ LastCall.op = "save_animation"
    /\ frames[1] = 0 /\ saved = {} /\ exc = "none"

\* a TurtleDrawer whose save_as_gif was called with nothing recorded
C26_WitnessDrawer ==
    /\ mode = "drawer" /\ script = "entangled_turtles"
    /\ Len(calls) = 2 /\ calls[1].op = "start_gif_recording" /\ LastCall.op = "save_as_gif"
    /\ frames[1] = 0 /\ saved = {} /\ "No frames recorded" \in console

\* C27: draw_quantum_paths ends on the most probable path: with h the heading
\* at entry, the final heading is h + 45 when prob_0 > prob_1 and h - 45
\* otherwise, a tie included; fed by a measurement, outcome 0 (prob_0 = 1,
\* prob_1 = 0) ends at h + 45 and outcome 1 at h - 45; and the pen colour at
\* exit is the pen colour at entry.
C27_EndsOnMostProbablePath ==
    (mode = "drawer" /\ calls # <<>> /\ LastCall.op = "draw_quantum_paths") =>
        /\ heading[1] = IF LastCall.p0 > LastCall.p1
                        THEN Turn(LastCall.h0, 90) ELSE Turn(LastCall.h0, -90)
        /\ (LastCall.p0 = 2 /\ LastCall.p1 = 0) => heading[1] = Turn(LastCall.h0, 90)
        /\ (LastCall.p0 = 0 /\ LastCall.p1 = 2) => heading[1] = Turn(LastCall.h0, -90)
        /\ pencolor[1] = LastCall.c0

\* a tie, drawn from heading 45 by a blue turtle: it ends at heading 0
C27_Witness ==
    /\ mode = "drawer" /\ Len(calls) = 2
    /\ LastCall.op = "draw_quantum_paths"
    /\ LastCall.p0 = 1 /\ LastCall.p1 = 1
    /\ LastCall.h0 = 90 /\ LastCall.c0 = "blue"
    /\ heading[1] = 0 /\ pencolor[1] = "blue"

----------------------------------------------------------------------------
(* The Logger the scripts install as sys.stdout. logger.terminal is what    *)
(* the terminal stream has received, of which the first logger.shown        *)
(* messages have been flushed to the screen; logger.log is what the log     *)
(* file holds and logger.buffered what its file object has not flushed yet. *)

\* write calls followed
MaxWrites == 5

\* the messages print() hands to write
Messages == {"Target", "0101", "\n"}

\* the scripts that install a Logger
LoggerScripts == {"grover", "architect_v2", "architect_3room", "architect_multi_rule"}

\* file.write: the message goes to the file object's buffer
File_write(lg, message) == [lg EXCEPT !.buffered = Append(@, message)]

\* file.flush: the buffer goes to the file, after what it holds
File_flush(lg) == [lg EXCEPT !.log = @ \o lg.buffered, !.buffered = <<>>]

\* a write that leaves the message in the file object's buffer
Logger_write_no_flush(lg, message) ==
    File_write([lg EXCEPT !.terminal = Append(@, message)], message)

\* Logger.write: terminal.write(message), log.write(message), log.flush()
Logger_write(lg, message) ==
    File_flush(File_write([lg EXCEPT !.terminal = Append(@, message)], message))

\* Logger.flush: terminal.flush(), log.flush()
Logger_flush(lg) == File_flush([lg EXCEPT !.shown = Len(lg.terminal)])

\* sys.stdout = Logger(log_filename): the file is opened with mode 'w'
InitLogger ==
    /\ script \in LoggerScripts
    /\ mode = "logger"
    /\ input = <<>>
    /\ n = 0
    /\ bpc = "idle"
    /\ it = 0
    /\ circuit = <<>>
    /\ pc = 0
    /\ psi = <<>>
    /\ h = 0
    /\ all_results = <<>>
    /\ qubits_arg = <<>>
    /\ raised = FALSE
    /\ returned = <<>>
    /\ logger = NoLogger
    /\ HistIdle
    /\ TurtleIdle

\* print(...) calls sys.stdout.write(message)
LoggerWrite(message) ==
    /\ mode = "logger"
    /\ Len(logger.terminal) < MaxWrites
    /\ logger' = Logger_write(logger, message)
    /\ UNCHANGED <<script, mode, input, n, bpc, it, circuit, pc, psi, h, all_results,
                   ovars, returned, hvars, tvars>>

\* sys.stdout.flush(), when something waits to be flushed
LoggerFlush ==
    /\ mode = "logger"
    /\ logger.shown < Len(logger.terminal)
    /\ logger' = Logger_flush(logger)
    /\ UNCHANGED <<script, mode, input, n, bpc, it, circuit, pc, psi, h, all_results,
                   ovars, returned, hvars, tvars>>

NextLogger ==
    \/ \E message \in Messages : LoggerWrite(message)
    \/ LoggerFlush

SpecLogger == InitLogger /\ [][NextLogger]_vars

IsPrefix(s, t) == Len(s) <= Len(t) /\ SubSeq(t, 1, Len(s)) = s

\* C29: once a Logger is installed as sys.stdout, after any sequence of
\* write calls the terminal stream and the log file have received the same
\* messages in the same order, nothing written is left unflushed in the log's
\* file object, and every step only extends the log: what the log held
\* before the step is a prefix of what it holds after it.
C29_LoggerIsFaithfulTee ==
    /\ [](mode = "logger" => (logger.log = logger.terminal /\ logger.buffered = <<>>))
    /\ [][mode = "logger" => IsPrefix(logger.log, logger'.log)]_vars

\* three writes, the first two flushed to the screen, all three in the log
C29_Witness ==
    /\ mode = "logger"
    /\ logger.terminal = <<"Target", "0101", "\n">>
    /\ logger.log = <<"Target", "0101", "\n">>
    /\ logger.shown = 2

====
